---- MODULE Spec2Model ----
(***************************************************************************)
(* examples/multiconformers/train_subword_multiconformers.py               *)
(*                                                                         *)
(* The training entry point as a state machine: one action per statement   *)
(* of the script that calls out of it (parser, strategy, loader,           *)
(* featurizers, vocabulary, datasets, trainer, model, optimizer, compile,  *)
(* fit).  Every external call either returns or raises; nothing in the     *)
(* script catches, so a raise ends the run.  The vocabulary file           *)
(* `<prefix>.subwords` lives in a file system that outlives a run, so      *)
(* the script can be started again on what an earlier run left behind.     *)
(***************************************************************************)
EXTENDS Integers, Sequences, FiniteSets, TLC

VARIABLES
    argv,                   \* the command line of the current run
    args,                   \* the parsed namespace (line 62)
    pc,                     \* the statement the run is at
    failedAt,               \* the statement whose call raised
    calls,                  \* the external calls made so far, in order
    mxp_option,             \* auto_mixed_precision handed to tf.config
    strategy,               \* what setup_strategy returned
    config_path,            \* the custom path handed to UserConfig
    loaded,                 \* the configuration as the loader returned it
    config,                 \* the configuration object the script holds
    heap,                   \* the nested dict objects config refers to
    lms_config,             \* reference held by lms_config
    lgs_config,             \* reference held by lgs_config
    speech_featurizer_lms,
    speech_featurizer_lgs,
    text_featurizer,
    saves,                  \* the arguments of every save_to_file call
    fs,                     \* prefixes p for which `p.subwords` exists
    train_dataset,
    eval_dataset,
    trainer,
    scope,                  \* the distribution scope of the with block
    multiconformers,
    optimizer,
    compiled,               \* the arguments of trainer.compile
    fitted,                 \* the arguments of trainer.fit
    run,                    \* how many times the script has been started
    intact                  \* prefixes saved by a build and not deleted since

vars == <<argv, args, pc, failedAt, calls, mxp_option, strategy, config_path,
          loaded, config, heap, lms_config, lgs_config, speech_featurizer_lms,
          speech_featurizer_lgs, text_featurizer, saves, fs, train_dataset,
          eval_dataset, trainer, scope, multiconformers, optimizer, compiled,
          fitted, run, intact>>

-----------------------------------------------------------------------------
(* Python values.  None is the empty tuple and a present value v is <<v>>,  *)
(* so that None never has to be compared with a string or a number.        *)

None == <<>>

Some(v) == <<v>>

IsNone(o) == o = <<>>

Val(o) == o[1]

\* Python truthiness of an optional string: None and "" are falsy.
Truthy(o) == ~IsNone(o) /\ Val(o) # ""

-----------------------------------------------------------------------------
(* The command line.  A flag is absent (None) or given with its raw text.  *)
(* An integer argument is text: a sequence of characters.                  *)

DigitChars == <<"0", "1", "2", "3", "4", "5", "6", "7", "8", "9">>

IsDigit(c) == \E i \in 1..Len(DigitChars) : DigitChars[i] = c

DigitVal(c) == (CHOOSE i \in 1..Len(DigitChars) : DigitChars[i] = c) - 1

\* int(text) of the parser's type=int: defined on digit strings only.
IsIntText(t) == Len(t) > 0 /\ \A i \in 1..Len(t) : IsDigit(t[i])

RECURSIVE IntOf(_)
IntOf(t) ==
    IF Len(t) = 0 THEN 0
    ELSE 10 * IntOf(SubSeq(t, 1, Len(t) - 1)) + DigitVal(t[Len(t)])

\* The bundled config.yml beside the script (line 23).
DEFAULT_YAML == "config.yml"

DefaultMaxCkpts == 10

DefaultDevice == 0

\* The command lines tried: every flag absent or given, integer flags as text
\* (one of them not a number), the prefix also given empty.
ConfigFlags == {None, Some("custom.yml")}

MaxCkptsFlags == {None, Some(<<"1", "2">>), Some(<<"x">>)}

TbsFlags == {None, Some(<<"8">>)}

EbsFlags == {None, Some(<<"4">>)}

DevicesFlags == {None, Some(<<>>), Some(<< <<"0">>, <<"1">> >>)}

PrefixFlags == {None, Some(""), Some("p")}

CorpusFlags == {None, Some(<<"train.tsv">>)}

CommandLines ==
    [config : ConfigFlags, max_ckpts : MaxCkptsFlags, tfrecords : BOOLEAN,
     nfx : BOOLEAN, tbs : TbsFlags, ebs : EbsFlags, devices : DevicesFlags,
     mxp : BOOLEAN, cache : BOOLEAN, subwords_prefix : PrefixFlags,
     subwords_corpus : CorpusFlags]

\* parser.parse_args() exits instead of returning when a type=int flag
\* is given text that int() rejects.
ParseOk(v) ==
    /\ ~IsNone(v.max_ckpts) => IsIntText(Val(v.max_ckpts))
    /\ ~IsNone(v.tbs) => IsIntText(Val(v.tbs))
    /\ ~IsNone(v.ebs) => IsIntText(Val(v.ebs))
    /\ ~IsNone(v.devices) =>
          \A i \in 1..Len(Val(v.devices)) : IsIntText(Val(v.devices)[i])

\* The namespace parse_args returns: add_argument's default when the flag
\* is absent, the converted value when it is given (lines 29-60).
ParseArgs(v) ==
    [config |-> IF IsNone(v.config) THEN DEFAULT_YAML ELSE Val(v.config),
     max_ckpts |-> IF IsNone(v.max_ckpts) THEN DefaultMaxCkpts
                   ELSE IntOf(Val(v.max_ckpts)),
     tfrecords |-> v.tfrecords,
     nfx |-> v.nfx,
     tbs |-> IF IsNone(v.tbs) THEN None ELSE Some(IntOf(Val(v.tbs))),
     ebs |-> IF IsNone(v.ebs) THEN None ELSE Some(IntOf(Val(v.ebs))),
     devices |-> IF IsNone(v.devices) THEN <<DefaultDevice>>
                 ELSE [i \in 1..Len(Val(v.devices)) |-> IntOf(Val(v.devices)[i])],
     mxp |-> v.mxp,
     cache |-> v.cache,
     subwords_prefix |-> v.subwords_prefix,
     subwords_corpus |-> IF IsNone(v.subwords_corpus) THEN <<>>
                         ELSE Val(v.subwords_corpus)]

-----------------------------------------------------------------------------
(* The configuration.  UserConfig is a mapping; config["speech_config"]    *)
(* is a reference to the nested dict, held in heap.                        *)

SpeechRef == "speech_config@1"

\* What the YAML may hold under speech_config: with or without feature_type.
SpeechDicts ==
    { ("sample_rate" :> "16000"),
      ("sample_rate" :> "16000") @@ ("feature_type" :> "log_mel_spectrogram") }

LoaderConfig ==
    [speech_config |-> SpeechRef,
     decoder_config |-> [target_vocab_size |-> "1024"],
     model_config |-> [name |-> "multi-conformers", dmodel |-> "144"],
     learning_config |->
        [dataset_config |-> [train_paths |-> <<"train.tsv">>,
                             eval_paths |-> <<"eval.tsv">>,
                             tfrecords_dir |-> "tfrecords"],
         augmentations |-> "augmentations",
         optimizer_config |-> [warmup_steps |-> "10000", beta1 |-> "0.9",
                               beta2 |-> "0.98", epsilon |-> "1e-9"],
         running_config |-> [num_epochs |-> "20"],
         gradpolicy |-> "gradpolicy"]]

\* Faulty variant: the dict is replaced by one holding the assigned key alone.
SetItemOnly(d, k, v) == [x \in {k} |-> v]

\* d[k] = v on a dict: the key is added when missing, replaced otherwise.
SetItem(d, k, v) ==
    [x \in (DOMAIN d) \cup {k} |-> IF x = k THEN v ELSE d[x]]

\* config["speech_config"] (lines 79, 81): the nested dict itself, not a copy.
SpeechConfigOf(c) == c.speech_config

-----------------------------------------------------------------------------
(* Control flow: the script is straight-line but for the two branches.     *)

Order ==
    <<"parse", "mxp", "strategy", "config", "lms_config", "lms_type",
      "lgs_config", "lgs_type", "feat_lms", "feat_lgs", "vocab", "save",
      "train_ds", "eval_ds", "trainer", "enter", "model", "build", "summary",
      "optimizer", "exit", "compile", "fit", "done">>

\* The element after p in a sequence of statements.
After(seq, p) == seq[(CHOOSE i \in 1..Len(seq) : seq[i] = p) + 1]

\* Faulty variant: fit is called before compile.
OrderFitFirst ==
    <<"parse", "mxp", "strategy", "config", "lms_config", "lms_type",
      "lgs_config", "lgs_type", "feat_lms", "feat_lgs", "vocab", "save",
      "train_ds", "eval_ds", "trainer", "enter", "model", "build", "summary",
      "optimizer", "exit", "fit", "compile", "done">>

NextPcFitFirst(p) == After(OrderFitFirst, p)

\* Faulty variant: compile is indented into the with block.
OrderCompileInScope ==
    <<"parse", "mxp", "strategy", "config", "lms_config", "lms_type",
      "lgs_config", "lgs_type", "feat_lms", "feat_lgs", "vocab", "save",
      "train_ds", "eval_ds", "trainer", "enter", "model", "build", "summary",
      "optimizer", "compile", "exit", "fit", "done">>

NextPcCompileInScope(p) == After(OrderCompileInScope, p)

\* The statement after p in the text of the script.
NextPc(p) == After(Order, p)

\* The with block (lines 143-161): an exception leaving it exits the scope.
Leave(s) == [s EXCEPT !.inside = FALSE]

\* The call of `step` returned: the run goes on with the next statement.
Return(step) ==
    /\ pc' = NextPc(pc)
    /\ calls' = Append(calls, step)
    /\ failedAt' = failedAt

\* Faulty variant: the call is wrapped in a loop that tries it again.
RaiseAndRetry(step) ==
    /\ pc' = pc
    /\ failedAt' = Some(step)
    /\ calls' = Append(calls, step)
    /\ UNCHANGED <<argv, args, mxp_option, strategy, config_path, loaded,
                   config, heap, lms_config, lgs_config,
                   speech_featurizer_lms, speech_featurizer_lgs,
                   text_featurizer, saves, fs, train_dataset, eval_dataset,
                   trainer, scope, multiconformers, optimizer, compiled,
                   fitted, run, intact>>

\* The call of `step` raised.  No statement of the script catches: the
\* interpreter unwinds and the process ends with nothing else changed.
Raise(step) ==
    /\ pc' = "failed"
    /\ failedAt' = Some(step)
    /\ calls' = Append(calls, step)
    /\ scope' = Leave(scope)
    /\ UNCHANGED <<argv, args, mxp_option, strategy, config_path, loaded,
                   config, heap, lms_config, lgs_config,
                   speech_featurizer_lms, speech_featurizer_lgs,
                   text_featurizer, saves, fs, train_dataset, eval_dataset,
                   trainer, multiconformers, optimizer, compiled, fitted,
                   run, intact>>

-----------------------------------------------------------------------------
(* The statements.                                                         *)

\* line 62
Parse ==
    /\ pc = "parse"
    /\ \/ /\ ParseOk(argv)
          /\ args' = Some(ParseArgs(argv))
          /\ Return("parse_args")
          /\ UNCHANGED <<argv, mxp_option, strategy, config_path, loaded,
                         config, heap, lms_config, lgs_config,
                         speech_featurizer_lms, speech_featurizer_lgs,
                         text_featurizer, saves, fs, train_dataset,
                         eval_dataset, trainer, scope, multiconformers,
                         optimizer, compiled, fitted, run, intact>>
       \/ /\ ~ParseOk(argv)
          /\ Raise("parse_args")

\* line 64
SetMixedPrecision ==
    /\ pc = "mxp"
    /\ \/ /\ mxp_option' = Some(Val(args).mxp)
          /\ Return("set_experimental_options")
          /\ UNCHANGED <<argv, args, strategy, config_path, loaded, config,
                         heap, lms_config, lgs_config, speech_featurizer_lms,
                         speech_featurizer_lgs, text_featurizer, saves, fs,
                         train_dataset, eval_dataset, trainer, scope,
                         multiconformers, optimizer, compiled, fitted, run,
                         intact>>
       \/ Raise("set_experimental_options")

\* line 66
SetupStrategy ==
    /\ pc = "strategy"
    /\ \/ /\ strategy' = Some([devices |-> Val(args).devices])
          /\ Return("setup_strategy")
          /\ UNCHANGED <<argv, args, mxp_option, config_path, loaded, config,
                         heap, lms_config, lgs_config, speech_featurizer_lms,
                         speech_featurizer_lgs, text_featurizer, saves, fs,
                         train_dataset, eval_dataset, trainer, scope,
                         multiconformers, optimizer, compiled, fitted, run,
                         intact>>
       \/ Raise("setup_strategy")

\* line 78: what the loader returns depends on files the script never sees.
LoadConfig ==
    /\ pc = "config"
    /\ \/ /\ \E d \in SpeechDicts :
                /\ config' = Some(LoaderConfig)
                /\ heap' = (SpeechRef :> d)
                /\ loaded' = Some([config |-> LoaderConfig, heap |-> (SpeechRef :> d)])
          /\ config_path' = Some(Val(args).config)
          /\ Return("UserConfig")
          /\ UNCHANGED <<argv, args, mxp_option, strategy, lms_config,
                         lgs_config, speech_featurizer_lms,
                         speech_featurizer_lgs, text_featurizer, saves, fs,
                         train_dataset, eval_dataset, trainer, scope,
                         multiconformers, optimizer, compiled, fitted, run,
                         intact>>
       \/ Raise("UserConfig")

\* line 79
AssignLms ==
    /\ pc = "lms_config"
    /\ lms_config' = Some(SpeechConfigOf(Val(config)))
    /\ pc' = NextPc(pc)
    /\ UNCHANGED <<argv, args, failedAt, calls, mxp_option, strategy,
                   config_path, loaded, config, heap, lgs_config,
                   speech_featurizer_lms, speech_featurizer_lgs,
                   text_featurizer, saves, fs, train_dataset, eval_dataset,
                   trainer, scope, multiconformers, optimizer, compiled,
                   fitted, run, intact>>

\* line 80
SetLmsType ==
    /\ pc = "lms_type"
    /\ heap' = [heap EXCEPT ![Val(lms_config)] =
                    SetItem(@, "feature_type", "log_mel_spectrogram")]
    /\ pc' = NextPc(pc)
    /\ UNCHANGED <<argv, args, failedAt, calls, mxp_option, strategy,
                   config_path, loaded, config, lms_config, lgs_config,
                   speech_featurizer_lms, speech_featurizer_lgs,
                   text_featurizer, saves, fs, train_dataset, eval_dataset,
                   trainer, scope, multiconformers, optimizer, compiled,
                   fitted, run, intact>>

\* line 81
AssignLgs ==
    /\ pc = "lgs_config"
    /\ lgs_config' = Some(SpeechConfigOf(Val(config)))
    /\ pc' = NextPc(pc)
    /\ UNCHANGED <<argv, args, failedAt, calls, mxp_option, strategy,
                   config_path, loaded, config, heap, lms_config,
                   speech_featurizer_lms, speech_featurizer_lgs,
                   text_featurizer, saves, fs, train_dataset, eval_dataset,
                   trainer, scope, multiconformers, optimizer, compiled,
                   fitted, run, intact>>

\* line 82
SetLgsType ==
    /\ pc = "lgs_type"
    /\ heap' = [heap EXCEPT ![Val(lgs_config)] =
                    SetItem(@, "feature_type", "log_gammatone_spectrogram")]
    /\ pc' = NextPc(pc)
    /\ UNCHANGED <<argv, args, failedAt, calls, mxp_option, strategy,
                   config_path, loaded, config, lms_config, lgs_config,
                   speech_featurizer_lms, speech_featurizer_lgs,
                   text_featurizer, saves, fs, train_dataset, eval_dataset,
                   trainer, scope, multiconformers, optimizer, compiled,
                   fitted, run, intact>>

\* lines 84-89: the class both featurizers are made of.
FeaturizerKind(a) ==
    IF a.nfx THEN "NumpySpeechFeaturizer" ELSE "TFSpeechFeaturizer"

\* A featurizer reads the dict it is given when it is constructed.
SpeechFeaturizer(a, h, ref) == [kind |-> FeaturizerKind(a), config |-> h[ref]]

\* lines 85, 88
MakeFeaturizerLms ==
    /\ pc = "feat_lms"
    /\ \/ /\ speech_featurizer_lms' =
                Some(SpeechFeaturizer(Val(args), heap, Val(lms_config)))
          /\ Return("speech_featurizer_lms")
          /\ UNCHANGED <<argv, args, mxp_option, strategy, config_path,
                         loaded, config, heap, lms_config, lgs_config,
                         speech_featurizer_lgs, text_featurizer, saves, fs,
                         train_dataset, eval_dataset, trainer, scope,
                         multiconformers, optimizer, compiled, fitted, run,
                         intact>>
       \/ Raise("speech_featurizer_lms")

\* lines 86, 89
MakeFeaturizerLgs ==
    /\ pc = "feat_lgs"
    /\ \/ /\ speech_featurizer_lgs' =
                Some(SpeechFeaturizer(Val(args), heap, Val(lgs_config)))
          /\ Return("speech_featurizer_lgs")
          /\ UNCHANGED <<argv, args, mxp_option, strategy, config_path,
                         loaded, config, heap, lms_config, lgs_config,
                         speech_featurizer_lms, text_featurizer, saves, fs,
                         train_dataset, eval_dataset, trainer, scope,
                         multiconformers, optimizer, compiled, fitted, run,
                         intact>>
       \/ Raise("speech_featurizer_lgs")

\* Faulty variant: the test of the file is dropped.
CanLoadSubwordsPrefixOnly(a, files) == Truthy(a.subwords_prefix)

\* Faulty variant: the test looks for the prefix with the extension doubled.
CanLoadSubwordsWrongName(a, files) ==
    Truthy(a.subwords_prefix) /\ (Val(a.subwords_prefix) \o ".subwords") \in files

\* line 91: args.subwords_prefix and os.path.exists(f"{prefix}.subwords")
CanLoadSubwords(a, files) ==
    Truthy(a.subwords_prefix) /\ Val(a.subwords_prefix) \in files

\* lines 92-94
LoadSubwords ==
    /\ pc = "vocab"
    /\ CanLoadSubwords(Val(args), fs)
    /\ \/ /\ text_featurizer' =
                Some([via |-> "load_from_file",
                      decoder_config |-> Val(config).decoder_config,
                      prefix |-> Val(args).subwords_prefix,
                      corpus_files |-> <<>>])
          /\ pc' = NextPc("save")
          /\ calls' = Append(calls, "load_from_file")
          /\ UNCHANGED <<argv, args, failedAt, mxp_option, strategy,
                         config_path, loaded, config, heap, lms_config,
                         lgs_config, speech_featurizer_lms,
                         speech_featurizer_lgs, saves, fs, train_dataset,
                         eval_dataset, trainer, scope, multiconformers,
                         optimizer, compiled, fitted, run, intact>>
       \/ Raise("load_from_file")

\* lines 96-100
BuildSubwords ==
    /\ pc = "vocab"
    /\ ~CanLoadSubwords(Val(args), fs)
    /\ \/ /\ text_featurizer' =
                Some([via |-> "build_from_corpus",
                      decoder_config |-> Val(config).decoder_config,
                      prefix |-> None,
                      corpus_files |-> Val(args).subwords_corpus])
          /\ Return("build_from_corpus")
          /\ UNCHANGED <<argv, args, mxp_option, strategy, config_path,
                         loaded, config, heap, lms_config, lgs_config,
                         speech_featurizer_lms, speech_featurizer_lgs, saves,
                         fs, train_dataset, eval_dataset, trainer, scope,
                         multiconformers, optimizer, compiled, fitted, run,
                         intact>>
       \/ Raise("build_from_corpus")

\* line 101: the argument of save_to_file.
SavePrefix(a) == a.subwords_prefix

\* line 101.  save_to_file writes `<prefix>.subwords`; it has no file name
\* to write to when the prefix is None, and raises.
SaveSubwords ==
    /\ pc = "save"
    /\ saves' = Append(saves, SavePrefix(Val(args)))
    /\ \/ /\ ~IsNone(SavePrefix(Val(args)))
          /\ fs' = fs \cup {Val(SavePrefix(Val(args)))}
          /\ intact' = intact \cup {Val(SavePrefix(Val(args)))}
          /\ Return("save_to_file")
          /\ UNCHANGED <<argv, args, mxp_option, strategy, config_path,
                         loaded, config, heap, lms_config, lgs_config,
                         speech_featurizer_lms, speech_featurizer_lgs,
                         text_featurizer, train_dataset, eval_dataset,
                         trainer, scope, multiconformers, optimizer,
                         compiled, fitted, run>>
       \/ /\ pc' = "failed"
          /\ failedAt' = Some("save_to_file")
          /\ calls' = Append(calls, "save_to_file")
          /\ UNCHANGED <<argv, args, mxp_option, strategy, config_path,
                         loaded, config, heap, lms_config, lgs_config,
                         speech_featurizer_lms, speech_featurizer_lgs,
                         text_featurizer, fs, train_dataset, eval_dataset,
                         trainer, scope, multiconformers, optimizer,
                         compiled, fitted, run, intact>>

\* Faulty variant: the eval dataset is always the in-memory one.
DatasetKindEvalSlice(a, stage) ==
    IF a.tfrecords /\ stage = "train" THEN "MultiConformersTFRecordDataset"
    ELSE "MultiConformersSliceDataset"

\* line 103: the class both datasets are made of.
DatasetKind(a, stage) ==
    IF a.tfrecords THEN "MultiConformersTFRecordDataset"
    ELSE "MultiConformersSliceDataset"

\* lines 104-136: the keyword arguments of a dataset constructor.  Only the
\* TFRecord backend takes tfrecords_dir; only the train set is augmented.
Dataset(a, c, stage, lms, lgs, tf) ==
    [kind |-> DatasetKind(a, stage),
     stage |-> stage,
     data_paths |-> IF stage = "train"
                    THEN c.learning_config.dataset_config.train_paths
                    ELSE c.learning_config.dataset_config.eval_paths,
     tfrecords_dir |-> IF a.tfrecords
                       THEN Some(c.learning_config.dataset_config.tfrecords_dir)
                       ELSE None,
     augmentations |-> IF stage = "train"
                       THEN Some(c.learning_config.augmentations)
                       ELSE None,
     cache |-> a.cache,
     shuffle |-> TRUE,
     speech_featurizer_lms |-> lms,
     speech_featurizer_lgs |-> lgs,
     text_featurizer |-> tf]

\* lines 104-112, 122-129
MakeTrainDataset ==
    /\ pc = "train_ds"
    /\ \/ /\ train_dataset' =
                Some(Dataset(Val(args), Val(config), "train",
                             Val(speech_featurizer_lms),
                             Val(speech_featurizer_lgs), Val(text_featurizer)))
          /\ Return("train_dataset")
          /\ UNCHANGED <<argv, args, mxp_option, strategy, config_path,
                         loaded, config, heap, lms_config, lgs_config,
                         speech_featurizer_lms, speech_featurizer_lgs,
                         text_featurizer, saves, fs, eval_dataset, trainer,
                         scope, multiconformers, optimizer, compiled, fitted,
                         run, intact>>
       \/ Raise("train_dataset")

\* lines 113-120, 130-136
MakeEvalDataset ==
    /\ pc = "eval_ds"
    /\ \/ /\ eval_dataset' =
                Some(Dataset(Val(args), Val(config), "eval",
                             Val(speech_featurizer_lms),
                             Val(speech_featurizer_lgs), Val(text_featurizer)))
          /\ Return("eval_dataset")
          /\ UNCHANGED <<argv, args, mxp_option, strategy, config_path,
                         loaded, config, heap, lms_config, lgs_config,
                         speech_featurizer_lms, speech_featurizer_lgs,
                         text_featurizer, saves, fs, train_dataset, trainer,
                         scope, multiconformers, optimizer, compiled, fitted,
                         run, intact>>
       \/ Raise("eval_dataset")

\* The trainer keeps the strategy it is constructed with.
TrainerStrategy(s) == s

\* lines 138-141
MakeTrainer ==
    /\ pc = "trainer"
    /\ \/ /\ trainer' =
                Some([config |-> Val(config).learning_config.running_config,
                      text_featurizer |-> Val(text_featurizer),
                      strategy |-> TrainerStrategy(Val(strategy))])
          /\ Return("MultiConformersTrainer")
          /\ UNCHANGED <<argv, args, mxp_option, strategy, config_path,
                         loaded, config, heap, lms_config, lgs_config,
                         speech_featurizer_lms, speech_featurizer_lgs,
                         text_featurizer, saves, fs, train_dataset,
                         eval_dataset, scope, multiconformers, optimizer,
                         compiled, fitted, run, intact>>
       \/ Raise("MultiConformersTrainer")

\* line 143
EnterScope ==
    /\ pc = "enter"
    /\ \/ /\ scope' = [inside |-> TRUE, entered |-> scope.entered + 1,
                       of |-> Some(Val(trainer).strategy)]
          /\ Return("scope")
          /\ UNCHANGED <<argv, args, mxp_option, strategy, config_path,
                         loaded, config, heap, lms_config, lgs_config,
                         speech_featurizer_lms, speech_featurizer_lgs,
                         text_featurizer, saves, fs, train_dataset,
                         eval_dataset, trainer, multiconformers, optimizer,
                         compiled, fitted, run, intact>>
       \/ Raise("scope")

\* lines 144-147
MakeModel ==
    /\ pc = "model"
    /\ \/ /\ multiconformers' =
                Some([model_config |-> Val(config).model_config,
                      vocabulary_of |-> Val(text_featurizer).via,
                      built |-> None,
                      summary |-> FALSE])
          /\ Return("MultiConformers")
          /\ UNCHANGED <<argv, args, mxp_option, strategy, config_path,
                         loaded, config, heap, lms_config, lgs_config,
                         speech_featurizer_lms, speech_featurizer_lgs,
                         text_featurizer, saves, fs, train_dataset,
                         eval_dataset, trainer, scope, optimizer, compiled,
                         fitted, run, intact>>
       \/ Raise("MultiConformers")

\* line 148
BuildModel ==
    /\ pc = "build"
    /\ \/ /\ multiconformers' =
                Some([Val(multiconformers) EXCEPT !.built =
                        Some(<<Val(speech_featurizer_lms).config,
                               Val(speech_featurizer_lgs).config>>)])
          /\ Return("_build")
          /\ UNCHANGED <<argv, args, mxp_option, strategy, config_path,
                         loaded, config, heap, lms_config, lgs_config,
                         speech_featurizer_lms, speech_featurizer_lgs,
                         text_featurizer, saves, fs, train_dataset,
                         eval_dataset, trainer, scope, optimizer, compiled,
                         fitted, run, intact>>
       \/ Raise("_build")

\* line 149
Summary ==
    /\ pc = "summary"
    /\ \/ /\ multiconformers' =
                Some([Val(multiconformers) EXCEPT !.summary = TRUE])
          /\ Return("summary")
          /\ UNCHANGED <<argv, args, mxp_option, strategy, config_path,
                         loaded, config, heap, lms_config, lgs_config,
                         speech_featurizer_lms, speech_featurizer_lgs,
                         text_featurizer, saves, fs, train_dataset,
                         eval_dataset, trainer, scope, optimizer, compiled,
                         fitted, run, intact>>
       \/ Raise("summary")

\* lines 151-161: max_lr is 0.05 / sqrt(dmodel), kept as the expression.
MakeOptimizer ==
    /\ pc = "optimizer"
    /\ \/ /\ optimizer' =
                Some([d_model |-> Val(config).model_config.dmodel,
                      warmup_steps |->
                          Val(config).learning_config.optimizer_config.warmup_steps,
                      max_lr |-> <<"0.05/sqrt", Val(config).model_config.dmodel>>,
                      beta_1 |-> Val(config).learning_config.optimizer_config.beta1,
                      beta_2 |-> Val(config).learning_config.optimizer_config.beta2,
                      epsilon |->
                          Val(config).learning_config.optimizer_config.epsilon])
          /\ Return("Adam")
          /\ UNCHANGED <<argv, args, mxp_option, strategy, config_path,
                         loaded, config, heap, lms_config, lgs_config,
                         speech_featurizer_lms, speech_featurizer_lgs,
                         text_featurizer, saves, fs, train_dataset,
                         eval_dataset, trainer, scope, multiconformers,
                         compiled, fitted, run, intact>>
       \/ Raise("Adam")

\* the end of the with block, line 161
ExitScope ==
    /\ pc = "exit"
    /\ scope' = Leave(scope)
    /\ pc' = NextPc(pc)
    /\ UNCHANGED <<argv, args, failedAt, calls, mxp_option, strategy,
                   config_path, loaded, config, heap, lms_config, lgs_config,
                   speech_featurizer_lms, speech_featurizer_lgs,
                   text_featurizer, saves, fs, train_dataset, eval_dataset,
                   trainer, multiconformers, optimizer, compiled, fitted,
                   run, intact>>

\* lines 163-164: the keyword arguments of compile.
CompileArgs(a, m, o) == [model |-> m, optimizer |-> o, max_to_keep |-> a.max_ckpts]

Compile ==
    /\ pc = "compile"
    /\ \/ /\ compiled' = Some(CompileArgs(Val(args), multiconformers, optimizer))
          /\ Return("compile")
          /\ UNCHANGED <<argv, args, mxp_option, strategy, config_path,
                         loaded, config, heap, lms_config, lgs_config,
                         speech_featurizer_lms, speech_featurizer_lgs,
                         text_featurizer, saves, fs, train_dataset,
                         eval_dataset, trainer, scope, multiconformers,
                         optimizer, fitted, run, intact>>
       \/ Raise("compile")

\* Faulty variant: the two batch sizes are handed over crossed.
FitArgsCrossed(a, c, train, eval) ==
    [gradpolicy |-> c.learning_config.gradpolicy,
     train_dataset |-> train, eval_dataset |-> eval,
     train_bs |-> a.ebs, eval_bs |-> a.tbs]

\* lines 166-167: the arguments of fit.
FitArgs(a, c, train, eval) ==
    [gradpolicy |-> c.learning_config.gradpolicy,
     train_dataset |-> train, eval_dataset |-> eval,
     train_bs |-> a.tbs, eval_bs |-> a.ebs]

Fit ==
    /\ pc = "fit"
    /\ \/ /\ fitted' = Some(FitArgs(Val(args), Val(config), train_dataset, eval_dataset))
          /\ Return("fit")
          /\ UNCHANGED <<argv, args, mxp_option, strategy, config_path,
                         loaded, config, heap, lms_config, lgs_config,
                         speech_featurizer_lms, speech_featurizer_lgs,
                         text_featurizer, saves, fs, train_dataset,
                         eval_dataset, trainer, scope, multiconformers,
                         optimizer, compiled, run, intact>>
       \/ Raise("fit")

-----------------------------------------------------------------------------
(* A run, and the runs after it.                                           *)

\* The prefixes a command line can name: the vocabulary files there can be.
Prefixes == {Val(o) : o \in PrefixFlags \ {None}}

\* The interpreter starting the script on command line v.
Start(v) ==
    /\ argv = v
    /\ args = None
    /\ pc = "parse"
    /\ failedAt = None
    /\ calls = <<>>
    /\ mxp_option = None
    /\ strategy = None
    /\ config_path = None
    /\ loaded = None
    /\ config = None
    /\ heap = <<>>
    /\ lms_config = None
    /\ lgs_config = None
    /\ speech_featurizer_lms = None
    /\ speech_featurizer_lgs = None
    /\ text_featurizer = None
    /\ saves = <<>>
    /\ train_dataset = None
    /\ eval_dataset = None
    /\ trainer = None
    /\ scope = [inside |-> FALSE, entered |-> 0, of |-> None]
    /\ multiconformers = None
    /\ optimizer = None
    /\ compiled = None
    /\ fitted = None

Init ==
    /\ \E v \in CommandLines : Start(v)
    /\ fs \in SUBSET Prefixes
    /\ run = 1
    /\ intact = {}

Next ==
    \/ Parse
    \/ SetMixedPrecision
    \/ SetupStrategy
    \/ LoadConfig
    \/ AssignLms
    \/ SetLmsType
    \/ AssignLgs
    \/ SetLgsType
    \/ MakeFeaturizerLms
    \/ MakeFeaturizerLgs
    \/ LoadSubwords
    \/ BuildSubwords
    \/ SaveSubwords
    \/ MakeTrainDataset
    \/ MakeEvalDataset
    \/ MakeTrainer
    \/ EnterScope
    \/ MakeModel
    \/ BuildModel
    \/ Summary
    \/ MakeOptimizer
    \/ ExitScope
    \/ Compile
    \/ Fit

\* One run of the script on any command line.
Spec == Init /\ [][Next]_vars

\* How many times the script is started.
MaxRuns == 2

\* The command lines of consecutive runs: the flags the vocabulary step
\* reads, the dataset backend, and one command line the parser rejects.
RunCommandLines ==
    {v \in CommandLines :
        /\ IsNone(v.config) /\ IsNone(v.tbs) /\ IsNone(v.ebs)
        /\ IsNone(v.devices) /\ ~v.nfx /\ ~v.mxp /\ ~v.cache
        /\ v.max_ckpts # Some(<<"1", "2">>)}

InitRuns ==
    /\ \E v \in RunCommandLines : Start(v)
    /\ fs \in SUBSET Prefixes
    /\ run = 1
    /\ intact = {}

\* The script is started again once the run before it has ended; the file
\* system is what that run left.
Restart ==
    /\ pc \in {"done", "failed"}
    /\ run < MaxRuns
    /\ run' = run + 1
    /\ argv' \in RunCommandLines
    /\ args' = None
    /\ pc' = "parse"
    /\ failedAt' = None
    /\ calls' = <<>>
    /\ mxp_option' = None
    /\ strategy' = None
    /\ config_path' = None
    /\ loaded' = None
    /\ config' = None
    /\ heap' = <<>>
    /\ lms_config' = None
    /\ lgs_config' = None
    /\ speech_featurizer_lms' = None
    /\ speech_featurizer_lgs' = None
    /\ text_featurizer' = None
    /\ saves' = <<>>
    /\ train_dataset' = None
    /\ eval_dataset' = None
    /\ trainer' = None
    /\ scope' = [inside |-> FALSE, entered |-> 0, of |-> None]
    /\ multiconformers' = None
    /\ optimizer' = None
    /\ compiled' = None
    /\ fitted' = None
    /\ UNCHANGED <<fs, intact>>

\* Something outside the script deletes a vocabulary file.
DeleteSubwords ==
    /\ \E p \in fs :
          /\ fs' = fs \ {p}
          /\ intact' = intact \ {p}
    /\ UNCHANGED <<argv, args, pc, failedAt, calls, mxp_option, strategy,
                   config_path, loaded, config, heap, lms_config, lgs_config,
                   speech_featurizer_lms, speech_featurizer_lgs,
                   text_featurizer, saves, train_dataset, eval_dataset,
                   trainer, scope, multiconformers, optimizer, compiled,
                   fitted, run>>

NextRuns == Next \/ Restart \/ DeleteSubwords

\* Consecutive runs over one file system.
SpecRuns == InitRuns /\ [][NextRuns]_vars

-----------------------------------------------------------------------------
(* Properties.                                                             *)

Called(c) == \E i \in 1..Len(calls) : calls[i] = c

Count(c) == Cardinality({i \in 1..Len(calls) : calls[i] = c})

\* The run has got past the vocabulary branch of lines 91-101.
PastVocab ==
    \/ pc \in {"save", "train_ds", "eval_ds", "trainer", "enter", "model",
               "build", "summary", "optimizer", "exit", "compile", "fit",
               "done"}
    \/ /\ pc = "failed"
       /\ Val(failedAt) \notin {"parse_args", "set_experimental_options",
                                "setup_strategy", "UserConfig",
                                "speech_featurizer_lms",
                                "speech_featurizer_lgs"}

\* The place of a call among the nine steps of the run; 0 for a call that
\* is none of them.
StepOf(c) ==
    CASE c = "parse_args" -> 1
      [] c = "setup_strategy" -> 2
      [] c \in {"speech_featurizer_lms", "speech_featurizer_lgs"} -> 3
      [] c \in {"load_from_file", "build_from_corpus"} -> 4
      [] c \in {"train_dataset", "eval_dataset"} -> 5
      [] c = "MultiConformersTrainer" -> 6
      [] c \in {"MultiConformers", "_build", "summary", "Adam"} -> 7
      [] c = "compile" -> 8
      [] c = "fit" -> 9
      [] OTHER -> 0

\* C1: the calls of a run are made in the order parse, strategy, speech
\* featurizers, text featurizer, datasets, trainer, model and optimizer,
\* compile, fit; no call is made twice and the text featurizer is obtained
\* once; compile comes before fit and is handed a model and an optimizer
\* that exist; a run that ends normally has made all nine steps.
C1_FixedOrder ==
    /\ \A i, j \in 1..Len(calls) :
          (i < j /\ StepOf(calls[i]) > 0 /\ StepOf(calls[j]) > 0)
             => StepOf(calls[i]) <= StepOf(calls[j])
    /\ \A i, j \in 1..Len(calls) : i # j => calls[i] # calls[j]
    /\ ~(Called("load_from_file") /\ Called("build_from_corpus"))
    /\ Called("fit") => Called("compile")
    /\ Called("compile") =>
          /\ Called("MultiConformers") /\ Called("Adam")
          /\ multiconformers # None /\ optimizer # None
    /\ compiled # None =>
          /\ Val(compiled).model # None
          /\ Val(compiled).optimizer # None
    /\ pc = "done" => \A k \in 1..9 : \E i \in 1..Len(calls) : StepOf(calls[i]) = k

C1_Witness == pc = "done" /\ fitted # None /\ calls[Len(calls)] = "fit"

\* C2: the step that leaves the vocabulary branch calls load_from_file if
\* the prefix was given non-empty and `<prefix>.subwords` exists at that
\* moment, and build_from_corpus with the --subwords_corpus files
\* otherwise; a run past the branch has called exactly one of the two.
C2_OneVocabularyCall ==
    /\ [](PastVocab => Count("load_from_file") + Count("build_from_corpus") = 1)
    /\ [](Count("load_from_file") + Count("build_from_corpus") <= 1)
    /\ [][(pc = "vocab" /\ pc' # "vocab") =>
            LET given == argv.subwords_prefix \notin {None, Some("")}
                there == given /\ Val(argv.subwords_prefix) \in fs
                made == calls'[Len(calls')]
            IN  /\ Len(calls') = Len(calls) + 1
                /\ there => made = "load_from_file"
                /\ ~there => made = "build_from_corpus"
                /\ (~there /\ text_featurizer' # None) =>
                      Val(text_featurizer').corpus_files =
                         (IF IsNone(argv.subwords_corpus) THEN <<>>
                          ELSE Val(argv.subwords_corpus))]_vars

C2_Witness ==
    /\ pc = "train_ds"
    /\ Called("load_from_file")
    /\ ~Called("build_from_corpus")
    /\ argv.subwords_prefix = Some("p")

\* C3: both datasets are of the class --tfrecords selects, the train
\* dataset is built for stage "train" from train_paths and the eval
\* dataset for stage "eval" from eval_paths, and fit is handed the train
\* dataset first and the eval dataset second.
C3_OneBackend ==
    LET kind == IF argv.tfrecords THEN "MultiConformersTFRecordDataset"
                ELSE "MultiConformersSliceDataset"
        paths == Val(loaded).config.learning_config.dataset_config
    IN  /\ train_dataset # None =>
              /\ Val(train_dataset).kind = kind
              /\ Val(train_dataset).stage = "train"
              /\ Val(train_dataset).data_paths = paths.train_paths
        /\ eval_dataset # None =>
              /\ Val(eval_dataset).kind = kind
              /\ Val(eval_dataset).stage = "eval"
              /\ Val(eval_dataset).data_paths = paths.eval_paths
        /\ fitted # None =>
              /\ Val(fitted).train_dataset = train_dataset
              /\ Val(fitted).eval_dataset = eval_dataset
              /\ Val(Val(fitted).train_dataset).stage = "train"
              /\ Val(Val(fitted).eval_dataset).stage = "eval"

C3_Witness ==
    /\ fitted # None
    /\ argv.tfrecords
    /\ Val(Val(fitted).eval_dataset).kind = "MultiConformersTFRecordDataset"

-----------------------------------------------------------------------------

\* A dict without its feature_type entry.
SansFeatureType(d) == [k \in (DOMAIN d) \ {"feature_type"} |-> d[k]]

\* C4 as stated: from the loader's return on the configuration is what the
\* loader produced, key for key, and the speech featurizers are handed the
\* loader's speech_config.
C4_Verbatim ==
    config # None =>
        /\ Val(config) = Val(loaded).config
        /\ heap = Val(loaded).heap
        /\ speech_featurizer_lms # None =>
              Val(speech_featurizer_lms).config = Val(loaded).heap[SpeechRef]
        /\ speech_featurizer_lgs # None =>
              Val(speech_featurizer_lgs).config = Val(loaded).heap[SpeechRef]

\* C4 amended: the script changes nothing of the configuration but the
\* feature_type entry of speech_config, which it adds or overwrites; every
\* other key keeps the loader's value, and every other configuration value
\* handed to a featurizer, dataset, trainer, model or optimizer is the
\* loader's.
C4_VerbatimButFeatureType ==
    config # None =>
        LET was == Val(loaded).config
            speech == Val(loaded).heap[SpeechRef]
            learning == was.learning_config
        IN  /\ Val(config) = was
            /\ DOMAIN heap = {SpeechRef}
            /\ (DOMAIN heap[SpeechRef]) \ {"feature_type"} =
                  (DOMAIN speech) \ {"feature_type"}
            /\ SansFeatureType(heap[SpeechRef]) = SansFeatureType(speech)
            /\ speech_featurizer_lms # None =>
                  SansFeatureType(Val(speech_featurizer_lms).config) =
                     SansFeatureType(speech)
            /\ speech_featurizer_lgs # None =>
                  SansFeatureType(Val(speech_featurizer_lgs).config) =
                     SansFeatureType(speech)
            /\ text_featurizer # None =>
                  Val(text_featurizer).decoder_config = was.decoder_config
            /\ train_dataset # None =>
                  /\ Val(train_dataset).data_paths =
                        learning.dataset_config.train_paths
                  /\ Val(train_dataset).augmentations =
                        Some(learning.augmentations)
                  /\ argv.tfrecords =>
                        Val(train_dataset).tfrecords_dir =
                           Some(learning.dataset_config.tfrecords_dir)
            /\ eval_dataset # None =>
                  /\ Val(eval_dataset).data_paths =
                        learning.dataset_config.eval_paths
                  /\ argv.tfrecords =>
                        Val(eval_dataset).tfrecords_dir =
                           Some(learning.dataset_config.tfrecords_dir)
            /\ trainer # None => Val(trainer).config = learning.running_config
            /\ multiconformers # None =>
                  Val(multiconformers).model_config = was.model_config
            /\ optimizer # None =>
                  /\ Val(optimizer).d_model = was.model_config.dmodel
                  /\ Val(optimizer).warmup_steps =
                        learning.optimizer_config.warmup_steps
                  /\ Val(optimizer).beta_1 = learning.optimizer_config.beta1
                  /\ Val(optimizer).beta_2 = learning.optimizer_config.beta2
                  /\ Val(optimizer).epsilon = learning.optimizer_config.epsilon
            /\ fitted # None => Val(fitted).gradpolicy = learning.gradpolicy

C4_Witness ==
    /\ pc = "done"
    /\ "feature_type" \notin DOMAIN Val(loaded).heap[SpeechRef]
    /\ heap[SpeechRef]["feature_type"] = "log_gammatone_spectrogram"
    /\ Val(speech_featurizer_lms).config # Val(loaded).heap[SpeechRef]

\* C5: a call that raised is the last call of the run: the run is ended,
\* the call was made once, nothing was called after it, and fit was not
\* called unless it is fit that raised.
C5_FailureEndsRun ==
    failedAt # None =>
        /\ pc = "failed"
        /\ Len(calls) > 0
        /\ calls[Len(calls)] = Val(failedAt)
        /\ Count(Val(failedAt)) = 1
        /\ Val(failedAt) # "fit" => ~Called("fit")
        /\ fitted = None
        /\ ~scope.inside

C5_Witness ==
    /\ pc = "failed"
    /\ failedAt = Some("build_from_corpus")
    /\ speech_featurizer_lgs # None
    /\ train_dataset = None

\* C6: the model's constructor, _build and summary and the optimizer's
\* constructor are called inside the scope, which is the scope of the
\* strategy setup_strategy returned for --devices and the trainer was
\* given; compile and fit are called outside it; the scope is entered at
\* most once, and exactly once by the time compile is called.
C6_ScopedConstruction ==
    /\ [](scope.entered <= 1)
    /\ [][calls' # calls =>
            LET made == calls'[Len(calls')]
            IN  /\ made \in {"MultiConformers", "_build", "summary", "Adam"} =>
                      /\ scope.inside
                      /\ scope.entered = 1
                      /\ scope.of = strategy
                      /\ Val(scope.of) = Val(trainer).strategy
                      /\ Val(scope.of).devices = Val(args).devices
                /\ made \in {"compile", "fit"} =>
                      /\ ~scope.inside
                      /\ scope.entered = 1
                      /\ multiconformers # None
                      /\ optimizer # None]_vars

C6_Witness ==
    /\ pc = "done"
    /\ scope.entered = 1
    /\ ~scope.inside
    /\ Val(multiconformers).summary
    /\ optimizer # None
    /\ compiled # None

-----------------------------------------------------------------------------

\* The largest integer a command line is read back as.
IntBound == 99

\* The decimal text of a natural number.
RECURSIVE Decimal(_)
Decimal(n) ==
    IF n < 10 THEN <<DigitChars[n + 1]>>
    ELSE Decimal(n \div 10) \o <<DigitChars[(n % 10) + 1]>>

\* x is the integer a flag stands for: the default when the flag is absent,
\* the number whose decimal text was given otherwise.
IsFlagInt(flag, default, x) ==
    IF IsNone(flag) THEN x = default
    ELSE \E n \in 0..IntBound : Decimal(n) = Val(flag) /\ x = n

\* x is the optional integer a flag stands for: None when absent.
IsFlagOptInt(flag, x) ==
    IF IsNone(flag) THEN x = None
    ELSE \E n \in 0..IntBound : Decimal(n) = Val(flag) /\ x = Some(n)

NoFlags ==
    [config |-> None, max_ckpts |-> None, tfrecords |-> FALSE, nfx |-> FALSE,
     tbs |-> None, ebs |-> None, devices |-> None, mxp |-> FALSE,
     cache |-> FALSE, subwords_prefix |-> None, subwords_corpus |-> None]

\* C7: with no flags the namespace holds the documented defaults, and what
\* a consumer is handed is the default of an absent flag and the value of a
\* given one: the config path, auto_mixed_precision, the devices of
\* setup_strategy, the featurizer class, the dataset class and cache,
\* max_to_keep of compile, train_bs and eval_bs of fit.
C7_DefaultsAndPassThrough ==
    /\ (argv = NoFlags /\ args # None) =>
          Val(args) = [config |-> "config.yml", max_ckpts |-> 10,
                       tfrecords |-> FALSE, nfx |-> FALSE, tbs |-> None,
                       ebs |-> None, devices |-> <<0>>, mxp |-> FALSE,
                       cache |-> FALSE, subwords_prefix |-> None,
                       subwords_corpus |-> <<>>]
    /\ mxp_option # None => Val(mxp_option) = argv.mxp
    /\ strategy # None =>
          IF IsNone(argv.devices) THEN Val(strategy).devices = <<0>>
          ELSE /\ Len(Val(strategy).devices) = Len(Val(argv.devices))
               /\ \A i \in 1..Len(Val(argv.devices)) :
                     IsFlagInt(Some(Val(argv.devices)[i]), 0,
                               Val(strategy).devices[i])
    /\ config_path # None =>
          Val(config_path) = (IF IsNone(argv.config) THEN "config.yml"
                              ELSE Val(argv.config))
    /\ speech_featurizer_lms # None =>
          Val(speech_featurizer_lms).kind =
             (IF argv.nfx THEN "NumpySpeechFeaturizer" ELSE "TFSpeechFeaturizer")
    /\ speech_featurizer_lgs # None =>
          Val(speech_featurizer_lgs).kind =
             (IF argv.nfx THEN "NumpySpeechFeaturizer" ELSE "TFSpeechFeaturizer")
    /\ train_dataset # None =>
          /\ Val(train_dataset).cache = argv.cache
          /\ Val(train_dataset).kind =
                (IF argv.tfrecords THEN "MultiConformersTFRecordDataset"
                 ELSE "MultiConformersSliceDataset")
    /\ eval_dataset # None => Val(eval_dataset).cache = argv.cache
    /\ compiled # None =>
          IsFlagInt(argv.max_ckpts, 10, Val(compiled).max_to_keep)
    /\ fitted # None =>
          /\ IsFlagOptInt(argv.tbs, Val(fitted).train_bs)
          /\ IsFlagOptInt(argv.ebs, Val(fitted).eval_bs)

C7_Witness ==
    /\ fitted # None
    /\ argv.max_ckpts = Some(<<"1", "2">>)
    /\ Val(compiled).max_to_keep = 12
    /\ argv.tbs = Some(<<"8">>)
    /\ Val(fitted).train_bs = Some(8)
    /\ IsNone(argv.ebs)
    /\ argv.devices = Some(<< <<"0">>, <<"1">> >>)
    /\ argv.mxp /\ argv.cache

\* C8 as stated: save_to_file is only called with a prefix that is not
\* None, the one given with --subwords_prefix, and only in a run that
\* built the vocabulary from the corpus; a run that loaded it has not
\* called save_to_file.
C8_SaveTarget ==
    /\ \A i \in 1..Len(saves) :
          /\ ~IsNone(saves[i])
          /\ saves[i] = argv.subwords_prefix
    /\ Len(saves) > 0 => Called("build_from_corpus")
    /\ Called("load_from_file") => Len(saves) = 0

\* C9 as stated: the featurizer of the first stream is constructed on
\* feature_type log_mel_spectrogram, that of the second on
\* log_gammatone_spectrogram, and both are of one class.
C9_DistinctStreams ==
    /\ speech_featurizer_lms # None =>
          Val(speech_featurizer_lms).config["feature_type"] = "log_mel_spectrogram"
    /\ speech_featurizer_lgs # None =>
          Val(speech_featurizer_lgs).config["feature_type"] =
             "log_gammatone_spectrogram"
    /\ (speech_featurizer_lms # None /\ speech_featurizer_lgs # None) =>
          Val(speech_featurizer_lms).kind = Val(speech_featurizer_lgs).kind

\* The run took the build-from-corpus branch: it is about to save, or
\* has saved, or the build or the save raised.
TookBuildBranch == Called("build_from_corpus")

\* The run has not got to the save of line 101 yet.
BeforeSave == ~Called("save_to_file")

\* C10 as stated: a run given a prefix whose vocabulary file an earlier
\* run built and saved, and nothing deleted since, does not take the
\* build-from-corpus branch.
C10_BuiltOncePerPrefix ==
    (args # None /\ ~IsNone(Val(args).subwords_prefix)
       /\ TookBuildBranch /\ BeforeSave)
        => Val(Val(args).subwords_prefix) \notin intact

\* C10 amended: the same for a prefix that is not the empty string.
C10_BuiltOncePerNonEmptyPrefix ==
    (args # None /\ ~IsNone(Val(args).subwords_prefix)
       /\ Val(Val(args).subwords_prefix) # ""
       /\ TookBuildBranch /\ BeforeSave)
        => Val(Val(args).subwords_prefix) \notin intact

C10_Witness ==
    /\ run = 2
    /\ pc = "train_ds"
    /\ Called("load_from_file")
    /\ Len(saves) = 0
    /\ Val(args).subwords_prefix = Some("p")
    /\ "p" \in intact

====
